---- MODULE Spec2Model ----
(***************************************************************************)
(* Blindfold chess: the voice dialogue controller of src/App.jsx and the   *)
(* speech-to-SAN interpreter of src/voice/sanFromSpeech.js.                *)
(*                                                                         *)
(* A JavaScript string is modelled as a sequence of one-character strings, *)
(* so that substring tests, splitting and character filters are computed   *)
(* the way the code computes them.  The empty string is << >>.             *)
(***************************************************************************)
EXTENDS Integers, Sequences, FiniteSets, TLC

(***************************************************************************)
(* Characters                                                              *)
(***************************************************************************)
UpperCase == <<"A","B","C","D","E","F","G","H","I","J","K","L","M",
               "N","O","P","Q","R","S","T","U","V","W","X","Y","Z">>

LowerCase == <<"a","b","c","d","e","f","g","h","i","j","k","l","m",
               "n","o","p","q","r","s","t","u","v","w","x","y","z">>

Digits == {"0","1","2","3","4","5","6","7","8","9"}

\* the characters \s matches, among those the transcripts can hold
WhiteSpace == {" ", "\t"}

Range(s) == {s[i] : i \in 1..Len(s)}

\* String.prototype.toLowerCase, one character
LowerChar(c) ==
  IF \E i \in 1..26 : UpperCase[i] = c
  THEN LowerCase[CHOOSE i \in 1..26 : UpperCase[i] = c]
  ELSE c

\* String.prototype.toLowerCase
toLowerCase(s) == [i \in 1..Len(s) |-> LowerChar(s[i])]

\* String.prototype.includes
\* (mutation) the word is looked for at the start of the string only
includes_AtStart(t, w) ==
  Len(w) <= Len(t) /\ SubSeq(t, 1, Len(w)) = w

includes(t, w) ==
  \E i \in 0..(Len(t) - Len(w)) : SubSeq(t, i + 1, i + Len(w)) = w

\* s.replace(/-/g, " ")
ReplaceHyphens(s) == [i \in 1..Len(s) |-> IF s[i] = "-" THEN " " ELSE s[i]]

\* s.replace(/\s+/g, " "): every maximal run of white space becomes one space
RECURSIVE CollapseSpaces(_)
CollapseSpaces(s) ==
  IF s = << >> THEN << >>
  ELSE IF Head(s) \in WhiteSpace
       THEN IF Len(s) >= 2 /\ s[2] \in WhiteSpace
            THEN CollapseSpaces(Tail(s))
            ELSE <<" ">> \o CollapseSpaces(Tail(s))
       ELSE <<Head(s)>> \o CollapseSpaces(Tail(s))

\* String.prototype.trim
RECURSIVE trim(_)
trim(s) ==
  IF s = << >> THEN << >>
  ELSE IF Head(s) \in WhiteSpace THEN trim(Tail(s))
  ELSE IF s[Len(s)] \in WhiteSpace THEN trim(SubSeq(s, 1, Len(s) - 1))
  ELSE s

\* s.split(" "): the pieces between single spaces, empty pieces included
RECURSIVE split(_)
split(s) ==
  IF \A i \in 1..Len(s) : s[i] /= " " THEN <<s>>
  ELSE LET k == CHOOSE i \in 1..Len(s) :
                  s[i] = " " /\ \A j \in 1..(i - 1) : s[j] /= " "
       IN  <<SubSeq(s, 1, k - 1)>> \o split(SubSeq(s, k + 1, Len(s)))

\* s.replace(/[^...]/g, ""): keep the characters of the set keep
RECURSIVE KeepChars(_, _)
KeepChars(s, keep) ==
  IF s = << >> THEN << >>
  ELSE (IF Head(s) \in keep THEN <<Head(s)>> ELSE << >>)
       \o KeepChars(Tail(s), keep)

\* Array.prototype.filter(Boolean) on strings: the empty ones are dropped
RECURSIVE filterNonEmpty(_)
filterNonEmpty(ts) ==
  IF ts = << >> THEN << >>
  ELSE (IF Head(ts) = << >> THEN << >> ELSE <<Head(ts)>>)
       \o filterNonEmpty(Tail(ts))

\* Array.prototype.findIndex, 1-based, 0 when nothing is found
FindIndex(ts, S) ==
  IF \E i \in 1..Len(ts) : ts[i] \in S
  THEN CHOOSE i \in 1..Len(ts) : ts[i] \in S /\ \A j \in 1..(i - 1) : ts[j] \notin S
  ELSE 0

(***************************************************************************)
(* src/voice/sanFromSpeech.js                                              *)
(***************************************************************************)
numberWords ==
  ( <<"o","n","e">>         :> <<"1">> ) @@
  ( <<"t","w","o">>         :> <<"2">> ) @@
  ( <<"t","h","r","e","e">> :> <<"3">> ) @@
  ( <<"f","o","u","r">>     :> <<"4">> ) @@
  ( <<"f","i","v","e">>     :> <<"5">> ) @@
  ( <<"s","i","x">>         :> <<"6">> ) @@
  ( <<"s","e","v","e","n">> :> <<"7">> ) @@
  ( <<"e","i","g","h","t">> :> <<"8">> )

pieceWords ==
  ( <<"k","n","i","g","h","t">> :> "N" ) @@
  ( <<"b","i","s","h","o","p">> :> "B" ) @@
  ( <<"r","o","o","k">>         :> "R" ) @@
  ( <<"q","u","e","e","n">>     :> "Q" ) @@
  ( <<"k","i","n","g">>         :> "K" )

promoWords ==
  ( <<"q","u","e","e","n">>     :> "Q" ) @@
  ( <<"r","o","o","k">>         :> "R" ) @@
  ( <<"b","i","s","h","o","p">> :> "B" ) @@
  ( <<"k","n","i","g","h","t">> :> "N" )

\* (mutation) number words are left as they were said
normToken_KeepsWords(t) ==
  KeepChars(trim(toLowerCase(t)), Range(LowerCase) \cup Digits)

\* (mutation) the number word is looked up before the punctuation is removed
normToken_MapsBeforeStrip(t) ==
  LET s == trim(toLowerCase(t))
  IN  IF s \in DOMAIN numberWords THEN numberWords[s]
      ELSE KeepChars(s, Range(LowerCase) \cup Digits)

normToken(t) ==
  LET s == KeepChars(trim(toLowerCase(t)), Range(LowerCase) \cup Digits)
  IN  IF s \in DOMAIN numberWords THEN numberWords[s] ELSE s

\* t is a token, or NoToken for an index outside the array (undefined)
NoToken == <<"undefined", "">>

At(ts, i) == IF i \in 1..Len(ts) THEN ts[i] ELSE NoToken

isFile(t) == t /= NoToken /\ Len(t) = 1 /\ t[1] \in {"a","b","c","d","e","f","g","h"}

isRank(t) == t /= NoToken /\ Len(t) = 1 /\ t[1] \in {"1","2","3","4","5","6","7","8"}

toSquare(file, rank) ==
  IF ~isFile(file) \/ ~isRank(rank) THEN << >> ELSE file \o rank

\* raw.toLowerCase().replace(/-/g," ").replace(/\s+/g," ").trim()
Cleaned(raw) == trim(CollapseSpaces(ReplaceHyphens(toLowerCase(raw))))

Tokens(cleaned) ==
  LET parts == split(cleaned)
  IN  filterNonEmpty([i \in 1..Len(parts) |-> normToken(parts[i])])

\* the inner loop of the promotion scan: j from i to min(i + 4, length) - 1
\* (0-based), here j from i to min(i + 3, length) (1-based)
RECURSIVE PromoInner(_, _, _, _)
PromoInner(tokens, j, hi, promo) ==
  IF j > hi THEN promo
  ELSE PromoInner(tokens, j + 1, hi,
         IF tokens[j] \in DOMAIN promoWords
         THEN <<"=", promoWords[tokens[j]]>> ELSE promo)

RECURSIVE PromoScan(_, _, _)
PromoScan(tokens, i, promo) ==
  IF i > Len(tokens) THEN promo
  ELSE PromoScan(tokens, i + 1,
         IF tokens[i] \in { <<"p","r","o","m","o","t","e">>,
                            <<"p","r","o","m","o","t","i","o","n">>,
                            <<"p","r","o","m","o","t","e","s">> }
         THEN PromoInner(tokens, i,
                IF i + 3 < Len(tokens) THEN i + 3 ELSE Len(tokens), promo)
         ELSE promo)

TakesWords == { <<"t","a","k","e","s">>, <<"c","a","p","t","u","r","e">>,
                <<"c","a","p","t","u","r","e","s">>, <<"x">> }

\* the last adjacent (file, rank) pair of the tokens, "" when there is none
RECURSIVE DestScan(_, _, _)
DestScan(tokens, i, dest) ==
  IF i > Len(tokens) - 1 THEN dest
  ELSE DestScan(tokens, i + 1,
         IF isFile(tokens[i]) /\ isRank(tokens[i + 1])
         THEN toSquare(tokens[i], tokens[i + 1]) ELSE dest)

\* hasMate -> "#", else hasCheck -> "+"
CheckSuffix(tokens) ==
  LET hasMate  == <<"c","h","e","c","k","m","a","t","e">> \in Range(tokens)
                  \/ <<"m","a","t","e">> \in Range(tokens)
      hasCheck == <<"c","h","e","c","k">> \in Range(tokens) \/ hasMate
  IN  IF hasMate THEN <<"#">> ELSE IF hasCheck THEN <<"+">> ELSE << >>

FallbackChars == Range(LowerCase) \cup Digits \cup {"+", "#", "=", "-"}

sanFromSpeech(raw) ==
  IF raw = << >> THEN << >>
  ELSE
  LET cleaned == Cleaned(raw)
      has(w)  == includes(cleaned, w)
      castle  == has(<<"c","a","s","t","l","e">>)
  IN
  IF castle /\ (  has(<<"k","i","n","g"," ","s","i","d","e">>)
               \/ has(<<"k","i","n","g","s","i","d","e">>)
               \/ has(<<"s","h","o","r","t">>) )
  THEN <<"O","-","O">>
  ELSE IF castle /\ (  has(<<"q","u","e","e","n"," ","s","i","d","e">>)
                    \/ has(<<"q","u","e","e","n","s","i","d","e">>)
                    \/ has(<<"l","o","n","g">>) )
  THEN <<"O","-","O","-","O">>
  ELSE IF cleaned \in { <<"o"," ","o">>, <<"o","o">>, <<"o","-","o">> }
  THEN <<"O","-","O">>
  ELSE IF cleaned \in { <<"o"," ","o"," ","o">>, <<"o","o","o">>,
                        <<"o","-","o","-","o">> }
  THEN <<"O","-","O","-","O">>
  ELSE
  LET tokens    == Tokens(cleaned)
      suffix    == CheckSuffix(tokens)
      promo     == PromoScan(tokens, 1, << >>)
      takesIdx  == FindIndex(tokens, TakesWords)
      isCapture == takesIdx /= 0
      pieceIdx  == FindIndex(tokens, DOMAIN pieceWords)
  IN
  IF Len(tokens) >= 2 /\ isFile(tokens[1]) /\ isRank(tokens[2])
  THEN \* pawn move
       LET promo2 == IF promo = << >> /\ Len(tokens) >= 3
                        /\ tokens[3] \in DOMAIN promoWords
                     THEN <<"=", promoWords[tokens[3]]>> ELSE promo
       IN  toSquare(tokens[1], tokens[2]) \o promo2 \o suffix
  ELSE IF Len(tokens) >= 4 /\ isFile(tokens[1]) /\ isCapture
          /\ isFile(At(tokens, takesIdx + 1)) /\ isRank(At(tokens, takesIdx + 2))
  THEN \* pawn capture
       tokens[1] \o <<"x">> \o toSquare(tokens[takesIdx + 1], tokens[takesIdx + 2])
         \o promo \o suffix
  ELSE IF pieceIdx /= 0
  THEN \* piece move or capture
       LET dest == DestScan(tokens, 1, << >>)
       IN  IF dest = << >> THEN << >>
           ELSE <<pieceWords[tokens[pieceIdx]]>>
                \o (IF isCapture THEN <<"x">> ELSE << >>) \o dest \o promo \o suffix
  ELSE \* fallback
       KeepChars(KeepChars(cleaned, Range(cleaned) \ WhiteSpace), FallbackChars)

(***************************************************************************)
(* src/App.jsx: the confirmation classifier                                *)
(***************************************************************************)
YesWords == { <<"c","o","n","f","i","r","m">>, <<"y","e","s">>, <<"y","e","a","h">>,
              <<"y","e","p">>, <<"o","k">>, <<"o","k","a","y">>, <<"g","o">>,
              <<"d","o"," ","i","t">>, <<"a","c","c","e","p","t">> }

NoWords == { <<"c","a","n","c","e","l">>, <<"n","o">>, <<"n","o","p","e">>,
             <<"s","t","o","p">>, <<"r","e","j","e","c","t">>,
             <<"d","i","s","c","a","r","d">> }

RepWords == { <<"r","e","p","e","a","t">>, <<"s","a","y"," ","a","g","a","i","n">>,
              <<"a","g","a","i","n">>, <<"w","h","a","t">>,
              <<"p","a","r","d","o","n">> }

\* (mutation) the CANCEL words are looked for before the CONFIRM words
interpretConfirmCommand_CancelFirst(raw) ==
  LET t == toLowerCase(raw)
  IN  IF \E w \in NoWords : includes(t, w) THEN "CANCEL"
      ELSE IF \E w \in YesWords : includes(t, w) THEN "CONFIRM"
      ELSE IF \E w \in RepWords : includes(t, w) THEN "REPEAT"
      ELSE "UNKNOWN"

interpretConfirmCommand(raw) ==
  LET t == toLowerCase(raw)
  IN  IF \E w \in YesWords : includes(t, w) THEN "CONFIRM"
      ELSE IF \E w \in NoWords : includes(t, w) THEN "CANCEL"
      ELSE IF \E w \in RepWords : includes(t, w) THEN "REPEAT"
      ELSE "UNKNOWN"

(***************************************************************************)
(* Bounds and inputs                                                       *)
(***************************************************************************)
\* the longest game (in half-moves) the board collaborator is asked to hold
MaxPlies == 2

\* the most sessions, stopped or finished and no longer referenced by
\* recogRef, whose end event is still to be delivered
MaxEnding == 2

\* the most "go" commands the engine worker may have unanswered
MaxQueries == 2

\* the transcripts the recognition service delivers (ev.results[0][0].transcript)
Transcripts ==
  { << >>,                                               \* no transcript: ""
    <<"e"," ","f","o","u","r">>,                         \* "e four"
    <<"K","n","i","g","h","t"," ","f"," ","t","h","r","e","e">>,  \* "Knight f three"
    <<"k","i","n","g">>,                                 \* "king"
    <<"y","e","s">>,                                     \* "yes"
    <<"n","o","p","e">>,                                 \* "nope"
    <<"a","g","a","i","n">>,                             \* "again"
    <<"r","o","o","k"," ","a"," ","f","o","u","r">> }    \* "rook a four"

\* the SAN of the engine's reply, as chess.move reports it (m.san)
EngineSan == <<"e","5">>

(***************************************************************************)
(* The state of the App component                                          *)
(***************************************************************************)
VARIABLES
  speechSupported, \* SpeechRecognition, the browser's constructor, exists
  mode,            \* useState("MOVE"): "MOVE" | "CONFIRM"
  pendingSan,      \* useState("")
  busy,            \* useState(false)
  listening,       \* useState(false)
  moves,           \* useState([])
  chess,           \* chessRef.current, the board collaborator
  recog,           \* recogRef.current, the session created last
  ending,          \* earlier sessions whose end event is still to come
  unstopped,       \* earlier sessions replaced while starting or active
  engine,          \* "go" commands the engine worker has not answered
  last,            \* what the handler that ran last did
  fn               \* a function applied on its own: its argument and result

vars == <<speechSupported, mode, pendingSan, busy, listening, moves, chess,
          recog, ending, unstopped, engine, last, fn>>

\* new Chess(): the half-moves applied and the game-over condition
NewChess == [hist |-> << >>, over |-> "no"]

NoSession == [kind |-> "none", env |-> [busy |-> FALSE, pendingSan |-> << >>],
              phase |-> "ended"]

\* what a handler did; holders are << >> (nothing) or <<value>>
NoOut == [ev |-> "mount", cmd |-> "none", raw |-> << >>, handed |-> << >>,
          applied |-> FALSE, spoke |-> << >>, requested |-> "none",
          found |-> "none", stopped |-> FALSE, asked |-> FALSE]

\* the values a render's closures capture: every function declared in the
\* body of App reads the busy and pendingSan of the render that declared it
CurEnv == [busy |-> busy, pendingSan |-> pendingSan]

\* the render that ran the effect of lines 63-123: the first one
FirstEnv == [busy |-> FALSE, pendingSan |-> << >>]

\* the state as one record, with out ready for the handler ev
Cur(ev) ==
  [sup |-> speechSupported, mode |-> mode, pendingSan |-> pendingSan,
   busy |-> busy, listening |-> listening, moves |-> moves, chess |-> chess,
   recog |-> recog, ending |-> ending, unstopped |-> unstopped,
   engine |-> engine,
   out |-> [NoOut EXCEPT !.ev = ev]]

\* the state a handler leaves, once React has applied its updates
Commit(s) ==
  /\ s.ending <= MaxEnding
  /\ s.engine <= MaxQueries
  /\ speechSupported' = s.sup
  /\ mode' = s.mode
  /\ pendingSan' = s.pendingSan
  /\ busy' = s.busy
  /\ listening' = s.listening
  /\ moves' = s.moves
  /\ chess' = s.chess
  /\ recog' = s.recog
  /\ ending' = s.ending
  /\ unstopped' = s.unstopped
  /\ engine' = s.engine
  /\ last' = s.out
  /\ fn' = fn

\* no function is applied on its own while the component runs
NoCall == [call |-> "none", heard |-> << >>, verdict |-> "none",
           san |-> << >>, tokens |-> << >>]

Init ==
  /\ fn = NoCall
  /\ speechSupported \in BOOLEAN
  /\ mode = "MOVE"
  /\ pendingSan = << >>
  /\ busy = FALSE
  /\ listening = FALSE
  /\ moves = << >>
  /\ chess = NewChess
  /\ recog = NoSession
  /\ ending = 0
  /\ unstopped = 0
  /\ engine = 0
  /\ last = NoOut

(***************************************************************************)
(* The collaborators                                                       *)
(***************************************************************************)
\* SpeechRecognition.stop(): a session that is starting or active stops and
\* has only its end event left; on any other it does nothing
StopSession(r) ==
  IF r.phase \in {"starting", "active"} THEN [r EXCEPT !.phase = "closing"] ELSE r

\* a SAN names a destination square or is a castling move: what every move
\* chess.move can accept looks like
HasSquare(san) ==
  \E i \in 1..(Len(san) - 1) : isFile(<<san[i]>>) /\ isRank(<<san[i + 1]>>)

MayBeLegal(c, san) ==
  /\ c.over /= "mate"
  /\ Len(c.hist) < MaxPlies
  /\ HasSquare(san) \/ san \in { <<"O","-","O">>, <<"O","-","O","-","O">> }

\* chess.move: the board after the move san, ending the game as over says
MoveOn(c, san, over) == [hist |-> Append(c.hist, san), over |-> over]

(***************************************************************************)
(* src/App.jsx: the functions of the component.  Each takes the state s    *)
(* reached so far in the running handler and returns the state it leaves;  *)
(* env is the render whose closure is running.                             *)
(***************************************************************************)
\* lines 125-130
stopListening(s) ==
  [s EXCEPT !.recog = StopSession(s.recog),
            !.listening = FALSE,
            !.out.found = IF @ = "none" THEN s.recog.phase ELSE @,
            !.out.stopped = TRUE]

\* the session r replaces the one recogRef holds, which lives on: it counts
\* among the ending ones if it was stopped or has finished, among the
\* unstopped ones if it can still start or deliver a result
Replace(s, r, kind) ==
  [s EXCEPT
     !.ending = IF s.recog.phase = "closing" THEN @ + 1 ELSE @,
     !.unstopped = IF s.recog.phase \in {"starting", "active"} THEN @ + 1 ELSE @,
     !.recog = r,
     !.out.requested = kind]

\* startListeningInternal, were the session before not stopped
startListeningInternal_NoStop(s, kind, env) ==
  IF ~s.sup THEN s
  ELSE Replace([s EXCEPT !.out.found = IF @ = "none" THEN s.recog.phase ELSE @],
               [kind |-> kind, env |-> env, phase |-> "starting"], kind)

\* lines 132-162; kind says which callback onResult is
startListeningInternal(s, kind, env) ==
  IF ~s.sup THEN s
  ELSE Replace(stopListening(s),
               [kind |-> kind, env |-> env, phase |-> "starting"], kind)

\* lines 164-174
requestEngineMove(s) ==
  [s EXCEPT !.busy = TRUE,
            !.engine = IF s.sup THEN @ + 1 ELSE @,
            !.out.asked = TRUE]

\* lines 212-217; the callback of lines 218-233 is MoveCallback
startListeningForMove(s, env) ==
  IF env.busy THEN s
  ELSE startListeningInternal(
         [s EXCEPT !.mode = "MOVE", !.pendingSan = << >>], "MOVE", env)

\* lines 236-240; the callback of lines 240-277 is ConfirmCallback
startListeningForConfirm(s, env) ==
  IF env.busy THEN s
  ELSE startListeningInternal(s, "CONFIRM", env)

\* applyPlayerSan, were the rejected move not followed by a new session
applyPlayerSan_NoRetry(s, env, san, legal, over) ==
  IF env.busy THEN s
  ELSE
  LET s1 == [s EXCEPT !.out.handed = <<san>>]
  IN
  IF ~legal
  THEN [s1 EXCEPT !.mode = "MOVE", !.pendingSan = << >>]
  ELSE
  LET s2 == [s1 EXCEPT !.chess = MoveOn(s.chess, san, over),
                       !.moves = Append(@, san),
                       !.out.applied = TRUE]
  IN
  IF over /= "no" THEN s2
  ELSE requestEngineMove(
         [s2 EXCEPT !.mode = "MOVE", !.pendingSan = << >>])

\* lines 176-210; legal and over are the board collaborator's answers
applyPlayerSan(s, env, san, legal, over) ==
  IF env.busy THEN s
  ELSE
  LET s1 == [s EXCEPT !.out.handed = <<san>>]
  IN
  IF ~legal
  THEN startListeningForMove(
         [s1 EXCEPT !.mode = "MOVE", !.pendingSan = << >>], env)
  ELSE
  LET s2 == [s1 EXCEPT !.chess = MoveOn(s.chess, san, over),
                       !.moves = Append(@, san),
                       !.out.applied = TRUE]
  IN
  IF over /= "no" THEN s2
  ELSE requestEngineMove(
         [s2 EXCEPT !.mode = "MOVE", !.pendingSan = << >>])

\* MoveCallback, were an uninterpretable transcript not followed by a retry
MoveCallback_GivesUp(s, env, raw) ==
  LET san == sanFromSpeech(raw)
      s1  == [s EXCEPT !.out.raw = raw]
  IN  IF san = << >>
      THEN s1
      ELSE startListeningForConfirm(
             [s1 EXCEPT !.mode = "CONFIRM", !.pendingSan = san,
                        !.out.spoke = <<san>>], env)

\* MoveCallback, were the heard move applied without asking
MoveCallback_NoConfirm(s, env, raw) ==
  LET san == sanFromSpeech(raw)
      s1  == [s EXCEPT !.out.raw = raw]
  IN  IF san = << >>
      THEN startListeningForMove(s1, env)
      ELSE applyPlayerSan(s1, env, san, MayBeLegal(s.chess, san), "no")

\* lines 218-233
MoveCallback(s, env, raw) ==
  LET san == sanFromSpeech(raw)
      s1  == [s EXCEPT !.out.raw = raw]
  IN  IF san = << >>
      THEN startListeningForMove(s1, env)
      ELSE startListeningForConfirm(
             [s1 EXCEPT !.mode = "CONFIRM", !.pendingSan = san,
                        !.out.spoke = <<san>>], env)

\* lines 243-247, the verdict CONFIRM
ConfirmBranch(s, env, legal, over) ==
  applyPlayerSan(stopListening(s), env, env.pendingSan, legal, over)

\* CancelBranch, were the pending SAN kept
CancelBranch_KeepsPending(s, env) ==
  startListeningInternal([stopListening(s) EXCEPT !.mode = "MOVE"], "MOVE", env)

\* lines 249-257, the verdict CANCEL
CancelBranch(s, env) ==
  startListeningForMove(
    [stopListening(s) EXCEPT !.mode = "MOVE", !.pendingSan = << >>], env)

\* RepeatBranch, were the move asked for again instead of the confirmation
RepeatBranch_AsksMove(s, env) ==
  startListeningForMove([s EXCEPT !.out.spoke = <<env.pendingSan>>], env)

\* lines 259-263, the verdict REPEAT
RepeatBranch(s, env) ==
  startListeningForConfirm([s EXCEPT !.out.spoke = <<env.pendingSan>>], env)

\* UnknownBranch, were a new move heard while confirming ignored
UnknownBranch_IgnoresMove(s, env, raw) ==
  startListeningForConfirm(s, env)

\* lines 265-277, the verdict UNKNOWN
UnknownBranch(s, env, raw) ==
  LET maybeSan == sanFromSpeech(raw)
  IN  IF maybeSan /= << >>
      THEN startListeningForConfirm(
             [s EXCEPT !.pendingSan = maybeSan, !.out.spoke = <<maybeSan>>], env)
      ELSE startListeningForConfirm(s, env)

\* lines 240-277
ConfirmCallback(s, env, raw, legal, over) ==
  LET cmd == interpretConfirmCommand(raw)
      s1  == [s EXCEPT !.out.cmd = cmd, !.out.raw = raw]
  IN  IF cmd = "CONFIRM" THEN ConfirmBranch(s1, env, legal, over)
      ELSE IF cmd = "CANCEL" THEN CancelBranch(s1, env)
      ELSE IF cmd = "REPEAT" THEN RepeatBranch(s1, env)
      ELSE UnknownBranch(s1, env, raw)

\* newGame, were the move list kept
newGame_KeepsMoves(s, env) ==
  startListeningForMove(
    [stopListening(s) EXCEPT !.chess = NewChess,
                             !.busy = FALSE, !.mode = "MOVE",
                             !.pendingSan = << >>], env)

\* lines 280-290
newGame(s, env) ==
  startListeningForMove(
    [stopListening(s) EXCEPT !.chess = NewChess, !.moves = << >>,
                             !.busy = FALSE, !.mode = "MOVE",
                             !.pendingSan = << >>], env)

\* onerror, were the pending SAN kept
onerror_KeepsPending(s) ==
  [s EXCEPT !.listening = FALSE, !.mode = "MOVE"]

\* onerror, were the session started again after the error
onerror_Retries(s) ==
  startListeningInternal(
    [s EXCEPT !.listening = FALSE, !.mode = "MOVE", !.pendingSan = << >>],
    "MOVE", s.recog.env)

\* lines 151-157
onerror(s) ==
  [s EXCEPT !.listening = FALSE, !.mode = "MOVE", !.pendingSan = << >>]

\* lines 78-114, the bestmove line; reply is "(none)" or a move, which the
\* board accepts (legal) or not, ending the game as over says
onmessage(s, env, reply, legal, over) ==
  IF reply = "(none)"
  THEN startListeningForMove([s EXCEPT !.busy = FALSE], env)
  ELSE
  LET s1 == IF legal
            THEN [s EXCEPT !.chess = MoveOn(s.chess, EngineSan, over),
                           !.moves = Append(@, EngineSan)]
            ELSE s
      s2 == [s1 EXCEPT !.busy = FALSE]
  IN  IF s2.chess.over /= "no" THEN s2
      ELSE startListeningForMove(s2, env)

(***************************************************************************)
(* The events: the three buttons (lines 297-299), the events of the        *)
(* recognition session recogRef holds and of the sessions before it, and   *)
(* the engine worker's bestmove line.  A handler runs to its end before    *)
(* the next event is taken, and React applies its updates together.        *)
(***************************************************************************)
Overs == {"no", "mate", "draw"}

\* <button onClick={startListeningForMove} disabled={busy || listening}>
Start ==
  /\ ~busy /\ ~listening
  /\ Commit(startListeningForMove(Cur("start"), CurEnv))

\* <button onClick={stopListening} disabled={!listening}>
Stop ==
  /\ listening
  /\ Commit(stopListening(Cur("stop")))

\* the New game button, were it not disabled while the engine is thinking
NewGame_IgnoresBusy == Commit(newGame(Cur("newGame"), CurEnv))

\* <button onClick={newGame} disabled={busy}>
NewGame ==
  /\ ~busy
  /\ Commit(newGame(Cur("newGame"), CurEnv))

\* r.onstart, line 144
OnStart ==
  /\ recog.phase = "starting"
  /\ Commit([Cur("onstart") EXCEPT !.recog.phase = "active", !.listening = TRUE])

\* r.onresult of a session started by startListeningForMove
OnMoveResult ==
  /\ recog.phase = "active" /\ recog.kind = "MOVE"
  /\ \E raw \in Transcripts :
       Commit(MoveCallback([Cur("moveResult") EXCEPT !.recog.phase = "closing"],
                           recog.env, raw))

\* r.onresult of a session started by startListeningForConfirm
OnConfirmResult ==
  /\ recog.phase = "active" /\ recog.kind = "CONFIRM"
  /\ \E raw \in Transcripts, legal \in BOOLEAN, over \in Overs :
       /\ legal => MayBeLegal(chess, recog.env.pendingSan)
       /\ ~legal => over = chess.over
       /\ Commit(ConfirmCallback(
                   [Cur("confirmResult") EXCEPT !.recog.phase = "closing"],
                   recog.env, raw, legal, over))

\* r.onerror, lines 151-157
OnError ==
  /\ recog.phase \in {"starting", "active"}
  /\ Commit(onerror([Cur("onerror") EXCEPT !.recog.phase = "closing"]))

\* r.onend of the session recogRef holds, line 159
OnEnd ==
  /\ recog.phase = "closing"
  /\ Commit([Cur("onend") EXCEPT !.recog.phase = "ended", !.listening = FALSE])

\* r.onend of an earlier session, line 159
OnEarlierEnd ==
  /\ ending > 0
  /\ Commit([Cur("onend") EXCEPT !.ending = @ - 1, !.listening = FALSE])

\* w.onmessage with a bestmove line, lines 73-115
OnBestMove ==
  /\ engine > 0
  /\ \E reply \in {"(none)", "move"}, legal \in BOOLEAN, over \in Overs :
       /\ legal => reply = "move" /\ chess.over /= "mate" /\ Len(chess.hist) < MaxPlies
       /\ ~legal => over = chess.over
       /\ Commit(onmessage([Cur("bestmove") EXCEPT !.engine = @ - 1],
                           FirstEnv, reply, legal, over))

Next ==
  \/ Start
  \/ Stop
  \/ NewGame
  \/ OnStart
  \/ OnMoveResult
  \/ OnConfirmResult
  \/ OnError
  \/ OnEnd
  \/ OnEarlierEnd
  \/ OnBestMove

Spec == Init /\ [][Next]_vars

(***************************************************************************)
(* Properties of the dialogue controller.  In a step, the unprimed         *)
(* variables are the state the event found and last' says what its         *)
(* handler did.                                                            *)
(***************************************************************************)
\* the step is the confirmation callback running on a verdict cmd
ConfirmStep(cmd) ==
  /\ last'.ev = "confirmResult"
  /\ interpretConfirmCommand(last'.raw) = cmd

\* the step left a new session of this kind requested and not yet started
Requested(kind) ==
  /\ last'.requested = kind
  /\ recog' = [kind |-> kind, env |-> recog.env, phase |-> "starting"]

\* the step applied no move: nothing was handed to chess.move and the board
\* and the move list are as before
NoMoveApplied ==
  /\ last'.handed = << >>
  /\ chess' = chess
  /\ moves' = moves

\* C1: in every reachable state the pending SAN is non-empty if and only if
\* the mode is CONFIRM
C1_PendingIffConfirm == (pendingSan /= << >>) <=> (mode = "CONFIRM")

\* C1 witness: awaiting confirmation with a pending SAN, in a game in which
\* both sides have moved
C1_Witness ==
  /\ mode = "CONFIRM" /\ pendingSan /= << >>
  /\ Len(moves) = 2 /\ recog.phase = "active"

\* C2: a player move is handed to chess.move, and the move list grows by a
\* player move, only in the callback of a confirmation session that is
\* active, on a transcript classified CONFIRM
C2_AppliedOnlyOnConfirm ==
  [][ (last'.handed /= << >>
         \/ (moves' /= moves /\ last'.ev \notin {"bestmove", "newGame"}))
      => (ConfirmStep("CONFIRM") /\ recog.kind = "CONFIRM"
            /\ recog.phase = "active") ]_vars

\* C2 witness: a confirmation callback has applied a player move
C2_Witness == last.ev = "confirmResult" /\ last.applied /\ moves /= << >>

\* C3: on a verdict CONFIRM the SAN handed to chess.move is the pending SAN
\* the state holds at that moment
C3_HandsPendingSan ==
  [][ (ConfirmStep("CONFIRM") /\ mode = "CONFIRM")
      => last'.handed = <<pendingSan>> ]_vars

\* C4: after a confirmed SAN was applied the pending SAN is empty, and the
\* mode is MOVE when the game goes on
C4_AppliedClearsPending ==
  (last.ev = "confirmResult" /\ last.applied)
  => (pendingSan = << >> /\ (chess.over = "no" => mode = "MOVE"))

\* C5: when chess.move rejects the confirmed SAN, the mode is MOVE, the
\* pending SAN is empty, the board and the move list are unchanged, no engine
\* query is issued and a move-listening session is requested
C5_IllegalMove ==
  [][ (ConfirmStep("CONFIRM") /\ last'.handed /= << >> /\ ~last'.applied)
      => (/\ mode' = "MOVE" /\ pendingSan' = << >>
          /\ chess' = chess /\ moves' = moves
          /\ ~last'.asked /\ engine' = engine /\ busy' = busy
          /\ Requested("MOVE")) ]_vars

\* C5 witness: chess.move has just rejected a SAN that names a square
C5_Witness ==
  /\ last.ev = "confirmResult" /\ ~last.applied
  /\ last.handed /= << >> /\ HasSquare(last.handed[1])
  /\ mode = "MOVE" /\ recog.kind = "MOVE"

\* C6: awaiting confirmation with a non-empty pending SAN, a transcript
\* classified CANCEL empties the pending SAN, sets the mode to MOVE, applies
\* no move and requests a move-listening session
C6_Cancel ==
  [][ (ConfirmStep("CANCEL") /\ mode = "CONFIRM" /\ pendingSan /= << >>)
      => (/\ pendingSan' = << >> /\ mode' = "MOVE"
          /\ NoMoveApplied
          /\ Requested("MOVE")) ]_vars

\* C6 witness: "nope" was heard while confirming, and a move is awaited
C6_Witness ==
  /\ last.ev = "confirmResult" /\ last.raw = <<"n","o","p","e">>
  /\ mode = "MOVE" /\ recog.kind = "MOVE" /\ recog.phase = "starting"

\* C7: awaiting confirmation, a transcript classified REPEAT leaves the mode,
\* the pending SAN, the board and the move list unchanged and requests a
\* confirmation-listening session
C7_Repeat ==
  [][ (ConfirmStep("REPEAT") /\ mode = "CONFIRM")
      => (/\ mode' = mode /\ pendingSan' = pendingSan
          /\ NoMoveApplied
          /\ Requested("CONFIRM")) ]_vars

\* C7 witness: "again" was heard while confirming, and the confirmation is
\* still awaited
C7_Witness ==
  /\ last.ev = "confirmResult" /\ last.raw = <<"a","g","a","i","n">>
  /\ mode = "CONFIRM" /\ pendingSan /= << >>
  /\ recog.kind = "CONFIRM" /\ recog.phase = "starting"

\* C8: on a verdict REPEAT the prompt spoken names the pending SAN the state
\* holds at that moment
C8_RepeatNamesPending ==
  [][ (ConfirmStep("REPEAT") /\ mode = "CONFIRM")
      => last'.spoke = <<pendingSan>> ]_vars

\* C9: awaiting confirmation, a transcript classified UNKNOWN is interpreted
\* as a move: a non-empty result replaces the pending SAN, an empty one
\* leaves it; the mode stays CONFIRM, no move is applied and a
\* confirmation-listening session is requested
C9_Unknown ==
  [][ (ConfirmStep("UNKNOWN") /\ mode = "CONFIRM")
      => (/\ pendingSan' = IF sanFromSpeech(last'.raw) /= << >>
                           THEN sanFromSpeech(last'.raw) ELSE pendingSan
          /\ mode' = "CONFIRM"
          /\ NoMoveApplied
          /\ Requested("CONFIRM")) ]_vars

\* C9 witness: "e four" was heard while confirming and is the pending SAN
C9_Witness ==
  /\ last.ev = "confirmResult" /\ last.cmd = "UNKNOWN"
  /\ last.raw = <<"e"," ","f","o","u","r">> /\ pendingSan = <<"e","4">>
  /\ mode = "CONFIRM" /\ recog.kind = "CONFIRM" /\ recog.phase = "starting"

\* C10: awaiting a move, a transcript with an empty interpretation leaves
\* the mode MOVE and the pending SAN empty and requests a move-listening
\* session, however often this happened before; a non-empty interpretation
\* becomes the pending SAN, the mode becomes CONFIRM and a
\* confirmation-listening session is requested
C10_MoveHeard ==
  [][ (last'.ev = "moveResult" /\ mode = "MOVE")
      => IF sanFromSpeech(last'.raw) = << >>
         THEN /\ mode' = "MOVE" /\ pendingSan' = << >>
              /\ Requested("MOVE")
         ELSE /\ mode' = "CONFIRM" /\ pendingSan' = sanFromSpeech(last'.raw)
              /\ Requested("CONFIRM") ]_vars

\* C10 witness: an uninterpretable transcript ("king") was heard while a
\* move was awaited, and a move is awaited again
C10_Witness ==
  /\ last.ev = "moveResult" /\ last.raw = <<"k","i","n","g">>
  /\ mode = "MOVE" /\ pendingSan = << >>
  /\ recog.kind = "MOVE" /\ recog.phase = "starting"

\* the sessions that can still fire a start event or deliver a result
Outstanding ==
  (IF recog.phase \in {"starting", "active"} THEN 1 ELSE 0) + unstopped

\* C11: at most one listening session is outstanding, and the handler that
\* started one has first stopped the session it found
C11_OneSession ==
  /\ Outstanding <= 1
  /\ last.requested /= "none" => (last.stopped /\ unstopped = 0)

\* C11 witness: a session was started while the one before was active, which
\* is now stopped and has its end event left
C11_Witness ==
  /\ last.requested /= "none" /\ last.found = "active"
  /\ recog.phase = "starting" /\ ending > 0

\* C12: at most one engine query is unanswered, and while one is, no
\* session is outstanding, no handler but the one of the engine's reply
\* requests a session or changes the move list, and no handler hands a
\* player move to chess.move or issues an engine query
C12_EngineExclusive ==
  [][ /\ engine' <= 1
      /\ engine > 0 =>
           /\ Outstanding = 0
           /\ last'.handed = << >> /\ ~last'.asked
           /\ last'.ev /= "bestmove" =>
                (last'.requested = "none" /\ moves' = moves /\ chess' = chess)
    ]_vars

\* C12 witness: an engine query is unanswered and an event (the end of the
\* stopped confirmation session) was handled meanwhile
C12_Witness == engine = 1 /\ busy /\ last.ev = "onend"

\* no session and no engine query is outstanding: nothing but a button can
\* make the controller act
Parked == Outstanding = 0 /\ engine = 0

\* C13: the handler of a session's error sets the mode to MOVE, empties the
\* pending SAN, applies no move, requests no session and leaves the
\* controller parked; a parked controller stays parked, and requests no
\* session, until Start or New game is pressed
C13_SpeechError ==
  [][ /\ last'.ev = "onerror" =>
           /\ mode' = "MOVE" /\ pendingSan' = << >>
           /\ NoMoveApplied
           /\ last'.requested = "none"
           /\ Parked'
      /\ (Parked /\ last'.ev \notin {"start", "newGame"}) =>
           (last'.requested = "none" /\ Parked')
    ]_vars

\* C13 witness: a confirmation session has reported an error
C13_Witness ==
  /\ last.ev = "onerror" /\ recog.kind = "CONFIRM" /\ recog.phase = "closing"
  /\ mode = "MOVE" /\ pendingSan = << >> /\ ~listening

\* the New game handler has left the state of a new game, the session it
\* found stopped
NewGameReset ==
  /\ mode' = "MOVE" /\ pendingSan' = << >>
  /\ busy' = FALSE /\ listening' = FALSE
  /\ moves' = << >> /\ chess' = NewChess
  /\ last'.stopped /\ unstopped' = 0
  /\ recog.phase \in {"starting", "active"} => ending' = ending + 1

\* C14 as claimed: New game resets the controller to its initial state, the
\* session before stopped, and requests a move-listening session
C14_NewGameResets ==
  [][ last'.ev = "newGame" =>
        /\ NewGameReset
        /\ last'.requested = "MOVE"
        /\ recog'.kind = "MOVE" /\ recog'.phase = "starting" ]_vars

\* C14 amended: New game resets the controller to its initial state, the
\* session before stopped; it requests a move-listening session when the
\* browser provides speech recognition, and none otherwise
C14_NewGameResetsSupported ==
  [][ last'.ev = "newGame" =>
        /\ NewGameReset
        /\ IF speechSupported
           THEN /\ last'.requested = "MOVE"
                /\ recog' = [kind |-> "MOVE",
                             env |-> [busy |-> FALSE, pendingSan |-> pendingSan],
                             phase |-> "starting"]
           ELSE last'.requested = "none" /\ recog' = recog ]_vars

\* C14 witness: New game was pressed while a session was active; the board
\* is new, that session is stopped and a move session is starting
C14_Witness ==
  /\ last.ev = "newGame" /\ last.found = "active" /\ last.requested = "MOVE"
  /\ moves = << >> /\ chess = NewChess /\ mode = "MOVE"
  /\ recog.kind = "MOVE" /\ recog.phase = "starting" /\ ending > 0

(***************************************************************************)
(* The interpreter and the classifier applied on their own: an utterance   *)
(* is drawn, and each function is applied to it once.                      *)
(***************************************************************************)
\* words joined by single spaces
RECURSIVE Join(_)
Join(ws) ==
  IF ws = << >> THEN << >>
  ELSE IF Len(ws) = 1 THEN ws[1]
  ELSE ws[1] \o <<" ">> \o Join(Tail(ws))

\* the words of the three lists of interpretConfirmCommand, and some of none
SpokenWords ==
  {
    <<"c","o","n","f","i","r","m">>,   \* "confirm"
    <<"y","e","s">>,   \* "yes"
    <<"y","e","a","h">>,   \* "yeah"
    <<"y","e","p">>,   \* "yep"
    <<"o","k">>,   \* "ok"
    <<"o","k","a","y">>,   \* "okay"
    <<"g","o">>,   \* "go"
    <<"d","o"," ","i","t">>,   \* "do it"
    <<"a","c","c","e","p","t">>,   \* "accept"
    <<"c","a","n","c","e","l">>,   \* "cancel"
    <<"n","o">>,   \* "no"
    <<"n","o","p","e">>,   \* "nope"
    <<"s","t","o","p">>,   \* "stop"
    <<"r","e","j","e","c","t">>,   \* "reject"
    <<"d","i","s","c","a","r","d">>,   \* "discard"
    <<"r","e","p","e","a","t">>,   \* "repeat"
    <<"s","a","y"," ","a","g","a","i","n">>,   \* "say again"
    <<"a","g","a","i","n">>,   \* "again"
    <<"w","h","a","t">>,   \* "what"
    <<"p","a","r","d","o","n">>,   \* "pardon"
    <<"e">>,   \* "e"
    <<"f","o","u","r">>,   \* "four"
    <<"m","a","y","b","e">>,   \* "maybe"
    <<"r","o","o","k">>,   \* "rook"
    <<"Y","E","S">> }   \* "YES"

\* one word, or two words said one after the other
SpokenReplies ==
  SpokenWords \cup {Join(<<a, b>>) : a, b \in SpokenWords}

Files == {"a","b","c","d","e","f","g","h"}

\* rank r as a digit and as the word said for it
RankDigit == <<"1","2","3","4","5","6","7","8">>

RankWord ==
  << <<"o","n","e">>,
     <<"t","w","o">>,
     <<"t","h","r","e","e">>,
     <<"f","o","u","r">>,
     <<"f","i","v","e">>,
     <<"s","i","x">>,
     <<"s","e","v","e","n">>,
     <<"e","i","g","h","t">> >>

\* "f r": a file and a rank, the rank as its digit or as its word
PawnPush(f, r, asWord) ==
  <<f, " ">> \o (IF asWord THEN RankWord[r] ELSE <<RankDigit[r]>>)

PawnPushes == {PawnPush(f, r, w) : f \in Files, r \in 1..8, w \in BOOLEAN}

\* the ways of saying a kingside castling
KingsideSaid ==
  {
    <<"c","a","s","t","l","e"," ","k","i","n","g"," ","s","i","d","e">>,   \* "castle king side"
    <<"k","i","n","g"," ","s","i","d","e"," ","c","a","s","t","l","e">>,   \* "king side castle"
    <<"c","a","s","t","l","e"," ","k","i","n","g","s","i","d","e">>,   \* "castle kingside"
    <<"k","i","n","g","s","i","d","e"," ","c","a","s","t","l","e">>,   \* "kingside castle"
    <<"c","a","s","t","l","e"," ","s","h","o","r","t">>,   \* "castle short"
    <<"s","h","o","r","t"," ","c","a","s","t","l","e">>,   \* "short castle"
    <<"C","a","s","t","l","e"," ","K","i","n","g","-","S","i","d","e">>,   \* "Castle King-Side"
    <<"o"," ","o">>,   \* "o o"
    <<"o","o">>,   \* "oo"
    <<"o","-","o">>,   \* "o-o"
    <<"O","-","O">> }   \* "O-O"

\* the ways of saying a queenside castling
QueensideSaid ==
  {
    <<"c","a","s","t","l","e"," ","q","u","e","e","n"," ","s","i","d","e">>,   \* "castle queen side"
    <<"q","u","e","e","n"," ","s","i","d","e"," ","c","a","s","t","l","e">>,   \* "queen side castle"
    <<"c","a","s","t","l","e"," ","q","u","e","e","n","s","i","d","e">>,   \* "castle queenside"
    <<"q","u","e","e","n","s","i","d","e"," ","c","a","s","t","l","e">>,   \* "queenside castle"
    <<"c","a","s","t","l","e"," ","l","o","n","g">>,   \* "castle long"
    <<"l","o","n","g"," ","c","a","s","t","l","e">>,   \* "long castle"
    <<"C","a","s","t","l","e"," ","Q","u","e","e","n","-","S","i","d","e">>,   \* "Castle Queen-Side"
    <<"o"," ","o"," ","o">>,   \* "o o o"
    <<"o","o","o">>,   \* "ooo"
    <<"o","-","o","-","o">>,   \* "o-o-o"
    <<"O","-","O","-","O">> }   \* "O-O-O"

\* utterances with capitals, punctuation, hyphens, tabs and runs of spaces
OtherSaid ==
  {
    << >>,   \* ""
    <<"E"," "," ","F","o","u","r",",">>,   \* "E  Four,"
    <<"k","n","i","g","h","t","-","f","-","t","h","r","e","e">>,   \* "knight-f-three"
    <<"f",".","o","u","r","!">>,   \* "f.our!"
    <<" ","e"," ","4"," ">>,   \* " e 4 "
    <<"Q","u","e","e","n"," ","t","a","k","e","s"," ","d"," ","e","i","g","h","t"," ","c","h","e","c","k">>,   \* "Queen takes d eight check"
    <<"e"," ","e","i","g","h","t"," ","p","r","o","m","o","t","e"," ","t","o"," ","q","u","e","e","n">>,   \* "e eight promote to queen"
    <<"d"," ","t","a","k","e","s"," ","e"," ","f","i","v","e">>,   \* "d takes e five"
    <<"b","i","s","h","o","p"," ","t","a","k","e","s"," ","e"," ","f","i","v","e"," ","c","h","e","c","k">>,   \* "bishop takes e five check"
    <<"?","!">>,   \* "?!"
    <<"e","\t","f","o","u","r">>,   \* "e\tfour"
    <<"R","o","o","k"," ","A"," ","F","o","u","r">>,   \* "Rook A Four"
    <<"k","i","n","g">>,   \* "king"
    <<"e"," ","9">>,   \* "e 9"
    <<"f","o","u","r",","," ","e">>,   \* "four, e"
    <<"i","t","'","s"," ","e","-","f","o","u","r"," ","m","a","t","e">> }   \* "it's e-four mate"

Utterances ==
  SpokenReplies \cup PawnPushes \cup KingsideSaid \cup QueensideSaid \cup OtherSaid

\* lines 46-50 and 64: the tokens of an utterance
Normalize(raw) == Tokens(Cleaned(raw))

Classify ==
  /\ fn.call = "none"
  /\ fn' = [fn EXCEPT !.call = "interpretConfirmCommand",
                      !.verdict = interpretConfirmCommand(fn.heard)]

Interpret ==
  /\ fn.call = "none"
  /\ fn' = [fn EXCEPT !.call = "sanFromSpeech",
                      !.san = sanFromSpeech(fn.heard)]

Tokenize ==
  /\ fn.call = "none"
  /\ fn' = [fn EXCEPT !.call = "normalize", !.tokens = Normalize(fn.heard)]

\* the tokens, joined by single spaces, normalized again
Retokenize ==
  /\ fn.call = "normalize"
  /\ fn' = [fn EXCEPT !.call = "renormalize",
                      !.tokens = Normalize(Join(fn.tokens))]

ctlVars == <<speechSupported, mode, pendingSan, busy, listening, moves, chess,
             recog, ending, unstopped, engine, last>>

FnInit ==
  /\ fn \in {[NoCall EXCEPT !.heard = u] : u \in Utterances}
  /\ speechSupported = TRUE
  /\ mode = "MOVE"
  /\ pendingSan = << >>
  /\ busy = FALSE
  /\ listening = FALSE
  /\ moves = << >>
  /\ chess = NewChess
  /\ recog = NoSession
  /\ ending = 0
  /\ unstopped = 0
  /\ engine = 0
  /\ last = NoOut

FnNext ==
  \/ Classify /\ UNCHANGED ctlVars
  \/ Interpret /\ UNCHANGED ctlVars
  \/ Tokenize /\ UNCHANGED ctlVars
  \/ Retokenize /\ UNCHANGED ctlVars

FnSpec == FnInit /\ [][FnNext]_vars

(***************************************************************************)
(* C15                                                                     *)
(***************************************************************************)
ConfirmWords ==
  { <<"c","o","n","f","i","r","m">>,
    <<"y","e","s">>,
    <<"y","e","a","h">>,
    <<"y","e","p">>,
    <<"o","k">>,
    <<"o","k","a","y">>,
    <<"g","o">>,
    <<"d","o"," ","i","t">>,
    <<"a","c","c","e","p","t">> }

CancelWords ==
  { <<"c","a","n","c","e","l">>,
    <<"n","o">>,
    <<"n","o","p","e">>,
    <<"s","t","o","p">>,
    <<"r","e","j","e","c","t">>,
    <<"d","i","s","c","a","r","d">> }

RepeatWords ==
  { <<"r","e","p","e","a","t">>,
    <<"s","a","y"," ","a","g","a","i","n">>,
    <<"a","g","a","i","n">>,
    <<"w","h","a","t">>,
    <<"p","a","r","d","o","n">> }

\* some word of ws is a substring of the lowercased transcript
SaysOneOf(ws, raw) == \E w \in ws : includes(toLowerCase(raw), w)

\* C15: interpretConfirmCommand returns CONFIRM when the lowercased
\* transcript contains a CONFIRM word as a substring, otherwise CANCEL when
\* it contains a CANCEL word, otherwise REPEAT when it contains a REPEAT
\* word, otherwise UNKNOWN; a transcript with both a CONFIRM and a CANCEL
\* word is a CONFIRM.
C15_Precedence ==
  fn.call = "interpretConfirmCommand" =>
    /\ SaysOneOf(ConfirmWords, fn.heard) => fn.verdict = "CONFIRM"
    /\ ~SaysOneOf(ConfirmWords, fn.heard) /\ SaysOneOf(CancelWords, fn.heard)
         => fn.verdict = "CANCEL"
    /\ ~SaysOneOf(ConfirmWords, fn.heard) /\ ~SaysOneOf(CancelWords, fn.heard)
         /\ SaysOneOf(RepeatWords, fn.heard)
         => fn.verdict = "REPEAT"
    /\ ~SaysOneOf(ConfirmWords, fn.heard) /\ ~SaysOneOf(CancelWords, fn.heard)
         /\ ~SaysOneOf(RepeatWords, fn.heard)
         => fn.verdict = "UNKNOWN"

\* "nope yes" has been classified, and is a CONFIRM
C15_Witness ==
  /\ fn.call = "interpretConfirmCommand"
  /\ SaysOneOf(ConfirmWords, fn.heard)
  /\ SaysOneOf(CancelWords, fn.heard)
  /\ fn.heard[1] = "n"
  /\ fn.verdict = "CONFIRM"

(***************************************************************************)
(* C16                                                                     *)
(***************************************************************************)
\* C16: for every file f in a..h and rank r in 1..8, the utterance "f r",
\* the rank said as a digit or as its number word, is interpreted as exactly
\* the two characters f and r, with no promotion and no check suffix.
C16_PawnPush ==
  \A f \in Files, r \in 1..8, w \in BOOLEAN :
    fn.call = "sanFromSpeech" /\ fn.heard = PawnPush(f, r, w)
      => fn.san = <<f, RankDigit[r]>>

\* "h eight" has been interpreted
C16_Witness ==
  /\ fn.call = "sanFromSpeech"
  /\ fn.heard = PawnPush("h", 8, TRUE)
  /\ fn.san = <<"h", "8">>

(***************************************************************************)
(* C17                                                                     *)
(***************************************************************************)
\* "castle" said before or after one of the words for a side
CastleWith(sides) ==
  {Join(<<<<"c","a","s","t","l","e">>, s>>) : s \in sides} \cup
  {Join(<<s, <<"c","a","s","t","l","e">>>>) : s \in sides}

KingsideVariants ==
  CastleWith({ <<"k","i","n","g"," ","s","i","d","e">>, <<"k","i","n","g","s","i","d","e">>, <<"s","h","o","r","t">> })
  \cup { <<"o"," ","o">>, <<"o","o">>, <<"o","-","o">> }

QueensideVariants ==
  CastleWith({ <<"q","u","e","e","n"," ","s","i","d","e">>, <<"q","u","e","e","n","s","i","d","e">>, <<"l","o","n","g">> })
  \cup { <<"o"," ","o"," ","o">>, <<"o","o","o">>, <<"o","-","o","-","o">> }

\* C17: every kingside castling variant ("castle" with "king side",
\* "kingside" or "short" in either order, or the whole utterance "o o", "oo"
\* or "o-o") is interpreted as "O-O", and every queenside variant ("castle"
\* with "queen side", "queenside" or "long", or "o o o", "ooo" or "o-o-o")
\* as "O-O-O".
C17_Castling ==
  fn.call = "sanFromSpeech" =>
    /\ fn.heard \in KingsideVariants => fn.san = <<"O","-","O">>
    /\ fn.heard \in QueensideVariants => fn.san = <<"O","-","O","-","O">>

\* "queen side castle" has been interpreted
C17_Witness ==
  /\ fn.call = "sanFromSpeech"
  /\ fn.heard = <<"q","u","e","e","n"," ","s","i","d","e"," ","c","a","s","t","l","e">>
  /\ fn.heard \in QueensideVariants
  /\ fn.san = <<"O","-","O","-","O">>

(***************************************************************************)
(* C18                                                                     *)
(***************************************************************************)
\* C18: normalization is idempotent: normalizing the tokens of a first
\* normalization, joined by single spaces, gives the same tokens.
C18_Idempotent ==
  [][fn'.call = "renormalize" => fn'.tokens = fn.tokens]_vars

\* "f.our!" has been normalized twice, to the token 4
C18_Witness ==
  /\ fn.call = "renormalize"
  /\ fn.heard = <<"f",".","o","u","r","!">>
  /\ fn.tokens = << <<"4">> >>

(***************************************************************************)
(* C19                                                                     *)
(***************************************************************************)
\* sanFromSpeech recognizes the utterance as a castling, a pawn push, a pawn
\* capture or a piece move or capture
SaysMove(raw) ==
  LET san == sanFromSpeech(raw)
  IN  /\ Len(san) >= 2
      /\ \/ san[1] \in {"O", "N", "B", "R", "Q", "K"}
         \/ san[1] \in Files /\ san[2] \in Range(RankDigit) \cup {"x"}

\* C19: awaiting confirmation, an utterance that is another move becomes
\* the new pending SAN: the previous pending SAN is neither applied nor
\* cancelled and the mode stays CONFIRM.
C19_NewMoveReplaces ==
  [][ (last'.ev = "confirmResult" /\ mode = "CONFIRM" /\ SaysMove(last'.raw))
      => (/\ pendingSan' = sanFromSpeech(last'.raw)
          /\ mode' = "CONFIRM"
          /\ NoMoveApplied) ]_vars

(***************************************************************************)
(* C20                                                                     *)
(***************************************************************************)
\* C20: the listening flag tracks the current session: once the session
\* recogRef holds has fired its start event, and until it ends, errors or
\* is stopped, listening is true; the end event of an earlier session does
\* not set it to false meanwhile.
C20_ListeningTracksSession == recog.phase = "active" => listening

====
